---- MODULE Spec2Model ----
(***************************************************************************)
(* Model of t5.evaluation.evaluator.Evaluator                              *)
(* (src/t5/evaluation/evaluator.py).                                       *)
(*                                                                         *)
(* The state is one Evaluator instance: the attributes the constructor     *)
(* sets (an attribute the constructor never assigns is Unset: reading it   *)
(* raises AttributeError), what the constructor logged, and the record of  *)
(* the last evaluate() call: its arguments, the calls it made to its       *)
(* collaborators in order, and how it ended (a returned pair or a raised   *)
(* exception).  Python's Optional values are [some |-> FALSE] (None) or     *)
(* [some |-> TRUE, val |-> v].                                              *)
(***************************************************************************)
EXTENDS Integers, Sequences, FiniteSets, TLC

VARIABLES
  phase,            \* "new" | "ready" | "failed": before / after __init__ / __init__ raised
  ctor_error,       \* the exception __init__ raised, or "none"
  ctor_args,        \* the arguments __init__ was called with and the maxima it observed
  ctor_log,         \* the warnings __init__ logged, in order
  converter_calls,  \* the (task, lengths) pairs feature_converter was called with, in order
  eval_tasks,       \* self._eval_tasks: sequence of task names
  cached_ds,        \* self._cached_ds: Optional mapping task -> enumerated dataset
  cached_examples,  \* self._cached_examples: Optional mapping task -> examples
  cached_targets,   \* self._cached_targets: Optional mapping task -> targets
  summary_writer,   \* self._summary_writer: "Unset" | "FileWriter"
  predict_fn,       \* the predict_fn of the last evaluate() call (Optional)
  call,             \* the last evaluate() call (Optional): arguments, events, outcome
  repeated          \* TRUE when the last evaluate() call was not the instance's first

vars == <<phase, ctor_error, ctor_args, ctor_log, converter_calls, eval_tasks,
          cached_ds, cached_examples, cached_targets, summary_writer,
          predict_fn, call, repeated>>

-----------------------------------------------------------------------------
(* Bounds and fixtures *)

\* Total number of cached examples over the active tasks.
MaxExamples == 3

None == [some |-> FALSE]
Some(v) == [some |-> TRUE, val |-> v]

\* The requested mixture, in the order get_subtasks lists its tasks.
Mixture == <<"t1", "t2">>
Tasks == {Mixture[k] : k \in DOMAIN Mixture}

\* Token ids and the pieces the target vocabulary decodes them to.
Piece == <<"a", "b">>
TokenIds == DOMAIN Piece
TokenSeqs == {<<1>>, <<2>>}

Range(s) == {s[k] : k \in DOMAIN s}
EmptyMap == <<>>
Min(a, b) == IF a < b THEN a ELSE b
Max(a, b) == IF a < b THEN b ELSE a

-----------------------------------------------------------------------------
(* Collaborators of the Evaluator *)

\* vocabulary.decode: the pieces of the token ids, in order.
decode(tokens) == [k \in DOMAIN tokens |-> Piece[tokens[k]]]

\* task.postprocess_fn: an opaque function of its three arguments.
postprocess_fn(d, example, is_target) ==
  [value |-> d, example |-> example, is_target |-> is_target]

\* The target token ids of the i-th example (0-based) of an evaluation split.
TargetTokens(i) == <<(i % 2) + 1>>

\* The i-th example (0-based) of a task's evaluation split, unshuffled.
Example(t, i) ==
  [task |-> t, id |-> i,
   inputs |-> [k \in 1..(i + 1) |-> 1],
   targets |-> TargetTokens(i)]

task_dataset(t, n) == [k \in 1..n |-> Example(t, k - 1)]

\* The target of an example: its target feature, decoded.
target_of(ex) == decode(ex.targets)

RECURSIVE MaxLen(_, _)
MaxLen(ds, feature) ==
  IF ds = <<>> THEN 0
  ELSE Max(Len(Head(ds)[feature]), MaxLen(Tail(ds), feature))

\* get_targets_and_examples: the per-feature maxima over all tasks' datasets.
RECURSIVE max_lengths_of(_, _)
max_lengths_of(tasks, n) ==
  IF tasks = <<>> THEN [inputs |-> 0, targets |-> 0]
  ELSE LET rest == max_lengths_of(Tail(tasks), n)
           ds == task_dataset(Head(tasks), n[Head(tasks)])
       IN [inputs |-> Max(MaxLen(ds, "inputs"), rest.inputs),
           targets |-> Max(MaxLen(ds, "targets"), rest.targets)]

\* Trim a feature to a length and pad it with 0 up to that length.
trim_and_pad(s, len) == [k \in 1..len |-> IF k <= Len(s) THEN s[k] ELSE 0]

\* feature_converter(ds, lengths): every feature trimmed and padded to its length.
feature_converter(ds, lengths) ==
  [k \in DOMAIN ds |->
     [inputs |-> trim_and_pad(ds[k].inputs, lengths.inputs),
      targets |-> trim_and_pad(ds[k].targets, lengths.targets)]]

\* Dataset.enumerate(): each element tagged with its 0-based position.
enumerate(ds) == [k \in DOMAIN ds |-> <<k - 1, ds[k]>>]

\* A metric function: exact match of prediction values against the targets.
exact_match(targets, predictions) ==
  LET n == Min(Len(targets), Len(predictions))
      hits == {k \in 1..n : predictions[k].value = targets[k]}
  IN <<  <<"accuracy", <<Cardinality(hits), Len(targets)>> >>  >>

\* A metric function: the number of predictions it was given.
num_predictions(targets, predictions) ==
  <<  <<"num_predictions", Len(predictions)>>  >>

\* task.metric_fns, by name.
metric_fns(t) == IF t = "t1" THEN <<"exact_match">>
                 ELSE <<"exact_match", "num_predictions">>

apply_metric(name, targets, predictions) ==
  IF name = "exact_match" THEN exact_match(targets, predictions)
  ELSE num_predictions(targets, predictions)

-----------------------------------------------------------------------------
(* Evaluator.__init__ *)

\* Lines 108-128: the lengths the converter will get and what is logged.  In
\* the branch no condition selects, the local `lengths` is never assigned.
reconcile_lengths(sequence_lengths, max_lengths) ==
  IF ~sequence_lengths.some
    THEN [lengths |-> Some(max_lengths), log |-> <<>>]
  ELSE IF \/ sequence_lengths.val.inputs < max_lengths.inputs
          \/ sequence_lengths.val.targets < max_lengths.targets
    THEN [lengths |-> sequence_lengths, log |-> <<"truncation">>]
  ELSE IF \/ sequence_lengths.val.inputs > max_lengths.inputs
          \/ sequence_lengths.val.targets > max_lengths.targets
    THEN [lengths |-> sequence_lengths, log |-> <<"wasted_computation">>]
  ELSE [lengths |-> None, log |-> <<>>]

\* Lines 130-141: the cached, converted and enumerated dataset of every task.
build_cached_ds(tasks, n, lengths) ==
  [t \in Range(tasks) |-> enumerate(feature_converter(task_dataset(t, n[t]), lengths))]

\* Lines 103-106, 143-144: the examples and targets get_targets_and_examples returns.
build_cached_examples(tasks, n) ==
  [t \in Range(tasks) |-> task_dataset(t, n[t])]

build_cached_targets(tasks, n) ==
  [t \in Range(tasks) |->
     [k \in 1..n[t] |-> target_of(task_dataset(t, n[t])[k])]]

\* Lines 146-148: the writer exists only when summary_dir is truthy.
open_summary_writer(summary_dir) ==
  IF summary_dir.some THEN "FileWriter" ELSE "Unset"

\* The results get_valid_eval_tasks can give: the tasks of the mixture that
\* have the split and a metric function, in the mixture's order.
ValidTaskLists == {<<>>, <<"t1">>, <<"t2">>, <<"t1", "t2">>}

RECURSIVE Total(_, _)
Total(tasks, n) == IF tasks = <<>> THEN 0 ELSE n[Head(tasks)] + Total(Tail(tasks), n)

\* The sizes the tasks' evaluation splits can have.
DatasetSizes(tasks) ==
  {n \in [Range(tasks) -> 1..MaxExamples] : Total(tasks, n) <= MaxExamples}

\* The sequence_lengths arguments tried: None, and every combination of one
\* less than, equal to and one more than the observed maximum of each feature.
SequenceLengthChoices(max_lengths) ==
  {None} \cup
  {Some([inputs |-> max_lengths.inputs + di, targets |-> max_lengths.targets + dt]) :
     di \in {-1, 0, 1}, dt \in {-1, 0, 1}}

SummaryDirs == {None, Some("summary_dir")}

\* Lines 86-93: no valid task: warn and return with only _eval_tasks set.
ConstructInactive(summary_dir) ==
  /\ phase = "new"
  /\ phase' = "ready"
  /\ eval_tasks' = <<>>
  /\ ctor_args' = [sequence_lengths |-> None, max_lengths |-> None,
                   summary_dir |-> summary_dir]
  /\ ctor_log' = <<"no_eval_task">>
  /\ UNCHANGED <<ctor_error, converter_calls, cached_ds, cached_examples,
                 cached_targets, summary_writer, predict_fn, call, repeated>>

\* Lines 86-148 with at least one valid task.
Construct(tasks, n, sequence_lengths, summary_dir) ==
  LET max_lengths == max_lengths_of(tasks, n)
      rec == reconcile_lengths(sequence_lengths, max_lengths)
  IN /\ phase = "new"
     /\ tasks # <<>>
     /\ eval_tasks' = tasks
     /\ ctor_args' = [sequence_lengths |-> sequence_lengths,
                      max_lengths |-> Some(max_lengths),
                      summary_dir |-> summary_dir]
     /\ ctor_log' = rec.log
     /\ IF rec.lengths.some
          THEN /\ phase' = "ready"
               /\ ctor_error' = "none"
               /\ converter_calls' =
                    [k \in DOMAIN tasks |-> [task |-> tasks[k], lengths |-> rec.lengths.val]]
               /\ cached_ds' = Some(build_cached_ds(tasks, n, rec.lengths.val))
               /\ cached_examples' = Some(build_cached_examples(tasks, n))
               /\ cached_targets' = Some(build_cached_targets(tasks, n))
               /\ summary_writer' = open_summary_writer(summary_dir)
          ELSE \* line 133 reads the unassigned local `lengths`
               /\ phase' = "failed"
               /\ ctor_error' = "UnboundLocalError"
               /\ converter_calls' = <<>>
               /\ cached_ds' = Some(EmptyMap)
               /\ UNCHANGED <<cached_examples, cached_targets, summary_writer>>
     /\ UNCHANGED <<predict_fn, call, repeated>>

-----------------------------------------------------------------------------
(* predict_fn: what the caller's callable returns for a task's cached dataset *)

Returns(r) == [raises |-> FALSE, ret |-> r]
Raises == [raises |-> TRUE, ret |-> <<>>]

Perms(n) == {p \in [1..n -> 0..(n - 1)] : \A j, k \in 1..n : p[j] = p[k] => j = k}

\* The token sequences a model predicts for examples 0..n-1: the target's
\* tokens for every example but at most one.
ModelOutputs(n) ==
  {f \in [0..(n - 1) -> TokenSeqs] :
     Cardinality({i \in 0..(n - 1) : f[i] # TargetTokens(i)}) <= 1}

\* One (index, token_sequence) pair per index 0..n-1, in any order.
WellFormed(n) ==
  {[k \in 1..n |-> <<p[k], f[p[k]]>>] : p \in Perms(n), f \in ModelOutputs(n)}

InOrder(n) == [k \in 1..n |-> <<k - 1, <<1>>>>]

\* Elements that are not (index, token_sequence): 1, 3 and 0 components.
BadElements(i) == {<<i>>, <<i, <<1>>, "extra">>, <<>>}

\* A sequence with the element at one position replaced by a malformed one.
Malformed(n) ==
  UNION {{[InOrder(n) EXCEPT ![k] = bad] : bad \in BadElements(k - 1)} : k \in 1..n}

\* Well-shaped pairs, but the last example's pair is missing.
Short(n) == IF n >= 2 THEN {SubSeq(InOrder(n), 1, n - 1)} ELSE {}

\* What predict_fn can do for a dataset of n examples.
PredictResults(n) ==
  {Returns(r) : r \in WellFormed(n) \cup Malformed(n) \cup Short(n) \cup {<<>>}}
    \cup {Raises}

\* The deterministic callables for a list of tasks: a callable is the table
\* of its results per task; n[t] is the size of task t's cached dataset.
RECURSIVE PredictTables(_, _)
PredictTables(tasks, n) ==
  IF tasks = <<>> THEN {EmptyMap}
  ELSE {(Head(tasks) :> r) @@ rest :
          r \in PredictResults(n[Head(tasks)]), rest \in PredictTables(Tail(tasks), n)}

\* The callables evaluate() can be given.  The instance evaluates one
\* deterministic predict_fn: the callable of its first call is the callable of
\* every later call.
PredictFns ==
  IF phase # "ready" THEN {}
  ELSE IF predict_fn.some THEN {predict_fn.val}
  ELSE PredictTables(eval_tasks, [t \in Range(eval_tasks) |-> Len(cached_ds.val[t])])

-----------------------------------------------------------------------------
(* Evaluator.evaluate *)

Event(op, task, args) == [op |-> op, task |-> task, args |-> args]

\* sorted(..., key=lambda x: x[0]): a stable insertion sort on the first component.
RECURSIVE insert_by_index(_, _)
insert_by_index(x, s) ==
  IF s = <<>> THEN <<x>>
  ELSE IF x[1] < Head(s)[1] THEN <<x>> \o s
  ELSE <<Head(s)>> \o insert_by_index(x, Tail(s))

\* Mutant of sorted_by_index: the pairs are kept in the order predict_fn gave.
unsorted(r) == r

RECURSIVE sorted_by_index(_)
sorted_by_index(r) ==
  IF r = <<>> THEN <<>>
  ELSE insert_by_index(r[Len(r)], sorted_by_index(SubSeq(r, 1, Len(r) - 1)))

\* Line 208: only element 0 is inspected; indexing an empty result raises.
check_shape(r) ==
  IF Len(r) = 0 THEN "IndexError"
  ELSE IF Len(r[1]) # 2 THEN "ValueError"
  ELSE "none"

\* Lines 212-214: x[0] of every element is read by the sort, then x[1] of every
\* element; an element too short for either raises IndexError, a longer one passes.
order_outputs(r) ==
  IF \E k \in DOMAIN r : Len(r[k]) < 1 THEN [error |-> "IndexError", tokens |-> <<>>]
  ELSE LET s == sorted_by_index(r)
       IN IF \E k \in DOMAIN s : Len(s[k]) < 2
            THEN [error |-> "IndexError", tokens |-> <<>>]
            ELSE [error |-> "none", tokens |-> [k \in DOMAIN s |-> s[k][2]]]

\* Lines 205-214: the prediction loop.  acc = [outputs, events, error].
RECURSIVE predict_loop(_, _, _, _)
predict_loop(tasks, ds, pf, acc) ==
  IF tasks = <<>> THEN acc
  ELSE
    LET t == Head(tasks)
        ev == Append(acc.events, Event("predict", t, ds[t]))
        shape == check_shape(pf[t].ret)
        ordered == order_outputs(pf[t].ret)
    IN IF pf[t].raises
         THEN [acc EXCEPT !.events = ev, !.error = "PredictError"]
       ELSE IF shape # "none"
         THEN [acc EXCEPT !.events = ev, !.error = shape]
       ELSE IF ordered.error # "none"
         THEN [acc EXCEPT !.events = ev, !.error = ordered.error]
       ELSE predict_loop(Tail(tasks), ds, pf,
              [acc EXCEPT !.events = ev,
                          !.outputs = (t :> ordered.tokens) @@ acc.outputs])

\* The (metric_name, metric_value) pairs of a task's metrics, in iteration order.
RECURSIVE metric_items(_)
metric_items(task_metrics) ==
  IF task_metrics = <<>> THEN <<>>
  ELSE Head(task_metrics) \o metric_items(Tail(task_metrics))

\* Lines 253-263: per pair, self.summary_writer is read before the line is logged.
RECURSIVE log_items(_, _, _, _, _)
log_items(items, step, task_name, writer, acc) ==
  IF items = <<>> THEN acc
  ELSE
    LET tag == <<"eval", task_name, Head(items)[1]>>
        value == Head(items)[2]
        logged == Append(acc.events,
                    Event("log", task_name, [tag |-> tag, step |-> step, value |-> value]))
        written == Append(logged,
                    Event("add_summary", task_name, [tag |-> tag, step |-> step, value |-> value]))
    IN IF writer = "Unset"
         THEN [acc EXCEPT !.error = "AttributeError"]
         ELSE log_items(Tail(items), step, task_name, writer,
                        [acc EXCEPT !.events = written])

\* Lines 245-266: _log_eval_results.  acc = [events, error].
log_eval_results(task_metrics, step, task_name, writer, events) ==
  LET warned == IF step.some THEN events
                ELSE Append(events, Event("warn_no_step", task_name, <<>>))
      used_step == IF step.some THEN step.val ELSE -1
      looped == log_items(metric_items(task_metrics), used_step, task_name, writer,
                          [events |-> warned, error |-> "none"])
  IN IF looped.error # "none" THEN looped
     ELSE IF writer = "Unset" THEN [looped EXCEPT !.error = "AttributeError"]
     ELSE [looped EXCEPT !.events = Append(looped.events, Event("flush", task_name, <<>>))]

\* Lines 226-229: every output token sequence decoded, in order.
decode_outputs(output_tokens) ==
  [k \in DOMAIN output_tokens |-> decode(output_tokens[k])]

\* Lines 230-233: zip(outputs, task_examples) through postprocess_fn.
postprocess_outputs(outputs, task_examples) ==
  [k \in 1..Min(Len(outputs), Len(task_examples)) |->
     postprocess_fn(outputs[k], task_examples[k], FALSE)]

\* Lines 235-237: every metric function on (targets, predictions).
compute_task_metrics(t, targets, predictions) ==
  [m \in DOMAIN metric_fns(t) |-> apply_metric(metric_fns(t)[m], targets, predictions)]

decode_events(t, output_tokens) ==
  [k \in DOMAIN output_tokens |-> Event("decode", t, output_tokens[k])]

postprocess_events(t, outputs, task_examples) ==
  [k \in 1..Min(Len(outputs), Len(task_examples)) |->
     Event("postprocess", t,
           [d |-> outputs[k], example |-> task_examples[k], is_target |-> FALSE])]

metric_events(t, targets, predictions) ==
  [m \in DOMAIN metric_fns(t) |->
     Event("metric", t, [fn |-> metric_fns(t)[m], targets |-> targets,
                         predictions |-> predictions])]

\* Lines 216-240: the metrics loop.  acc = [metrics, events, error].
RECURSIVE metrics_loop(_, _, _, _, _)
metrics_loop(tasks, self, all_output_tokens, step, acc) ==
  IF tasks = <<>> THEN acc
  ELSE
    LET t == Head(tasks)
        task_examples == self.cached_examples.val[t]
        targets == self.cached_targets.val[t]
        output_tokens == all_output_tokens[t]
        outputs == decode_outputs(output_tokens)
        predictions == postprocess_outputs(outputs, task_examples)
        metrics == compute_task_metrics(t, targets, predictions)
        ev == acc.events \o decode_events(t, output_tokens)
                         \o postprocess_events(t, outputs, task_examples)
                         \o metric_events(t, targets, predictions)
        logged == log_eval_results(metrics, step, t, self.summary_writer, ev)
        acc2 == [acc EXCEPT !.metrics = (t :> metrics) @@ acc.metrics,
                            !.events = logged.events]
    IN IF logged.error # "none"
         THEN [acc2 EXCEPT !.error = logged.error]
         ELSE metrics_loop(Tail(tasks), self, all_output_tokens, step, acc2)

Returned(outputs, metrics) ==
  [kind |-> "return", error |-> "none", outputs |-> Some(outputs), metrics |-> metrics]

Raised(error) ==
  [kind |-> "raise", error |-> error, outputs |-> None, metrics |-> None]

\* How a call ended: the calls it made, the local all_output_tokens when it
\* ended, and what it returned or raised.
Ended(events, all_output_tokens, outcome) ==
  [events |-> events, all_output_tokens |-> all_output_tokens, outcome |-> outcome]

\* Mutant of evaluate: an instance with no task returns before all_metrics is set.
evaluate_skips_when_inactive(self, compute_metrics, step, pf) ==
  LET predicted == predict_loop(self.eval_tasks,
                                IF self.cached_ds.some THEN self.cached_ds.val ELSE EmptyMap,
                                pf,
                                [outputs |-> EmptyMap, events |-> <<>>, error |-> "none"])
      measured == metrics_loop(self.eval_tasks, self, predicted.outputs, step,
                               [metrics |-> EmptyMap, events |-> predicted.events,
                                error |-> "none"])
  IN IF self.eval_tasks = <<>>
       THEN Ended(<<>>, EmptyMap, Returned(EmptyMap, None))
     ELSE IF predicted.error # "none"
       THEN Ended(predicted.events, predicted.outputs, Raised(predicted.error))
     ELSE IF ~compute_metrics
       THEN Ended(predicted.events, predicted.outputs,
             Returned(predicted.outputs, None))
     ELSE IF measured.error # "none"
       THEN Ended(measured.events, predicted.outputs, Raised(measured.error))
     ELSE Ended(measured.events, predicted.outputs,
           Returned(predicted.outputs, Some(measured.metrics)))

\* Mutant of evaluate: the metrics loop runs whatever compute_metrics is.
evaluate_always_metrics(self, compute_metrics, step, pf) ==
  LET predicted == predict_loop(self.eval_tasks,
                                IF self.cached_ds.some THEN self.cached_ds.val ELSE EmptyMap,
                                pf,
                                [outputs |-> EmptyMap, events |-> <<>>, error |-> "none"])
      measured == metrics_loop(self.eval_tasks, self, predicted.outputs, step,
                               [metrics |-> EmptyMap, events |-> predicted.events,
                                error |-> "none"])
  IN IF predicted.error # "none"
       THEN Ended(predicted.events, predicted.outputs, Raised(predicted.error))
     ELSE IF measured.error # "none"
       THEN Ended(measured.events, predicted.outputs, Raised(measured.error))
     ELSE Ended(measured.events, predicted.outputs,
           Returned(predicted.outputs, Some(measured.metrics)))

\* Mutant of evaluate: one loop that predicts a task and at once computes and
\* logs its metrics, before the next task is predicted.  acc = [outputs,
\* metrics, events, error].
RECURSIVE fused_loop(_, _, _, _, _, _)
fused_loop(tasks, self, compute_metrics, step, pf, acc) ==
  IF tasks = <<>> THEN acc
  ELSE
    LET t == Head(tasks)
        predicted == predict_loop(<<t>>, self.cached_ds.val, pf,
                       [outputs |-> EmptyMap, events |-> acc.events, error |-> "none"])
        measured == metrics_loop(<<t>>, self, predicted.outputs, step,
                       [metrics |-> EmptyMap, events |-> predicted.events,
                        error |-> "none"])
    IN IF predicted.error # "none"
         THEN [acc EXCEPT !.events = predicted.events, !.error = predicted.error]
       ELSE IF ~compute_metrics
         THEN fused_loop(Tail(tasks), self, compute_metrics, step, pf,
                [acc EXCEPT !.events = predicted.events,
                            !.outputs = predicted.outputs @@ acc.outputs])
       ELSE IF measured.error # "none"
         THEN [acc EXCEPT !.events = measured.events, !.error = measured.error]
       ELSE fused_loop(Tail(tasks), self, compute_metrics, step, pf,
              [acc EXCEPT !.events = measured.events,
                          !.outputs = predicted.outputs @@ acc.outputs,
                          !.metrics = measured.metrics @@ acc.metrics])

evaluate_fused(self, compute_metrics, step, pf) ==
  LET done == fused_loop(self.eval_tasks, self, compute_metrics, step, pf,
                [outputs |-> EmptyMap, metrics |-> EmptyMap, events |-> <<>>,
                 error |-> "none"])
  IN IF done.error # "none"
       THEN Ended(done.events, done.outputs, Raised(done.error))
       ELSE Ended(done.events, done.outputs,
                  Returned(done.outputs,
                           IF compute_metrics THEN Some(done.metrics) ELSE None))

\* Lines 202-242: evaluate, as its events in order and its outcome.
evaluate(self, compute_metrics, step, pf) ==
  LET predicted == predict_loop(self.eval_tasks,
                                IF self.cached_ds.some THEN self.cached_ds.val ELSE EmptyMap,
                                pf,
                                [outputs |-> EmptyMap, events |-> <<>>, error |-> "none"])
      measured == metrics_loop(self.eval_tasks, self, predicted.outputs, step,
                               [metrics |-> EmptyMap, events |-> predicted.events,
                                error |-> "none"])
  IN IF predicted.error # "none"
       THEN Ended(predicted.events, predicted.outputs, Raised(predicted.error))
     ELSE IF ~compute_metrics
       THEN Ended(predicted.events, predicted.outputs,
             Returned(predicted.outputs, None))
     ELSE IF measured.error # "none"
       THEN Ended(measured.events, predicted.outputs, Raised(measured.error))
     ELSE Ended(measured.events, predicted.outputs,
           Returned(predicted.outputs, Some(measured.metrics)))

Self ==
  [eval_tasks |-> eval_tasks, cached_ds |-> cached_ds,
   cached_examples |-> cached_examples, cached_targets |-> cached_targets,
   summary_writer |-> summary_writer]

Steps == {None, Some(0)}

\* Mutant of Evaluate: a call that computes metrics consumes the cached targets.
Evaluate_consuming(compute_metrics, step, pf) ==
  LET res == evaluate(Self, compute_metrics, step, pf)
  IN /\ phase = "ready"
     /\ predict_fn.some => pf = predict_fn.val
     /\ predict_fn' = Some(pf)
     /\ call' = Some([compute_metrics |-> compute_metrics, step |-> step,
                      events |-> res.events,
                      all_output_tokens |-> res.all_output_tokens,
                      outcome |-> res.outcome])
     /\ repeated' = call.some
     /\ cached_targets' =
          IF compute_metrics /\ cached_targets.some
            THEN Some([t \in DOMAIN cached_targets.val |-> <<>>])
            ELSE cached_targets
     /\ UNCHANGED <<phase, ctor_error, ctor_args, ctor_log, converter_calls,
                    eval_tasks, cached_ds, cached_examples, summary_writer>>

\* One evaluate() call.
Evaluate(compute_metrics, step, pf) ==
  LET res == evaluate(Self, compute_metrics, step, pf)
  IN /\ phase = "ready"
     /\ predict_fn.some => pf = predict_fn.val
     /\ predict_fn' = Some(pf)
     /\ call' = Some([compute_metrics |-> compute_metrics, step |-> step,
                      events |-> res.events,
                      all_output_tokens |-> res.all_output_tokens,
                      outcome |-> res.outcome])
     /\ repeated' = call.some
     /\ UNCHANGED <<phase, ctor_error, ctor_args, ctor_log, converter_calls,
                    eval_tasks, cached_ds, cached_examples, cached_targets,
                    summary_writer>>

-----------------------------------------------------------------------------
(* Specification *)

Init ==
  /\ phase = "new"
  /\ ctor_error = "none"
  /\ ctor_args = [sequence_lengths |-> None, max_lengths |-> None, summary_dir |-> None]
  /\ ctor_log = <<>>
  /\ converter_calls = <<>>
  /\ eval_tasks = <<>>
  /\ cached_ds = None
  /\ cached_examples = None
  /\ cached_targets = None
  /\ summary_writer = "Unset"
  /\ predict_fn = None
  /\ call = None
  /\ repeated = FALSE

Next ==
  \/ \E summary_dir \in SummaryDirs : ConstructInactive(summary_dir)
  \/ \E tasks \in ValidTaskLists \ {<<>>} :
       \E n \in DatasetSizes(tasks) :
         \E sequence_lengths \in SequenceLengthChoices(max_lengths_of(tasks, n)) :
           \E summary_dir \in SummaryDirs :
             Construct(tasks, n, sequence_lengths, summary_dir)
  \/ \E compute_metrics \in BOOLEAN :
       \E step \in Steps :
         \E pf \in PredictFns :
           Evaluate(compute_metrics, step, pf)

Spec == Init /\ [][Next]_vars

-----------------------------------------------------------------------------
(* Vocabulary of the properties *)

ActiveTasks == Range(eval_tasks)
Called == phase = "ready" /\ call.some
Outcome == call.val.outcome
Events == call.val.events
ReturnedNormally == Called /\ Outcome.kind = "return"

\* What predict_fn gave for task t in the last call.
Result(t) == predict_fn.val[t]
NumCached(t) == Len(cached_examples.val[t])

\* r holds exactly one 2-component element for each index 0..n-1.
IsPermutation(r, n) ==
  /\ Len(r) = n
  /\ \A k \in DOMAIN r : Len(r[k]) = 2
  /\ {r[k][1] : k \in DOMAIN r} = 0..(n - 1)

WellBehaved(t) == ~Result(t).raises /\ IsPermutation(Result(t).ret, NumCached(t))
AllWellBehaved == \A t \in ActiveTasks : WellBehaved(t)

\* The token sequence r pairs with index i, and r's token sequences by index.
TokensAt(r, i) == r[CHOOSE k \in DOMAIN r : r[k][1] = i][2]
InIndexOrder(r) == [i \in 1..Len(r) |-> TokensAt(r, i - 1)]

OnlyPredictEvents == \A k \in DOMAIN Events : Events[k].op = "predict"
EventsWith(op) == {k \in DOMAIN Events : Events[k].op = op}

RECURSIVE PredictedTasks(_)
PredictedTasks(evs) ==
  IF evs = <<>> THEN <<>>
  ELSE IF Head(evs).op = "predict" THEN <<Head(evs).task>> \o PredictedTasks(Tail(evs))
  ELSE PredictedTasks(Tail(evs))

IsPrefix(s, u) == Len(s) <= Len(u) /\ s = SubSeq(u, 1, Len(s))

AnyShort ==
  \/ ctor_args.sequence_lengths.val.inputs < ctor_args.max_lengths.val.inputs
  \/ ctor_args.sequence_lengths.val.targets < ctor_args.max_lengths.val.targets
AnyLong ==
  \/ ctor_args.sequence_lengths.val.inputs > ctor_args.max_lengths.val.inputs
  \/ ctor_args.sequence_lengths.val.targets > ctor_args.max_lengths.val.targets
Logged(w) == \E k \in DOMAIN ctor_log : ctor_log[k] = w

\* The predictions the cache calls for: example i's token sequence decoded and
\* post-processed with cached example i.
AlignedPredictions(t) ==
  [i \in 1..NumCached(t) |->
     postprocess_fn(decode(TokensAt(Result(t).ret, i - 1)),
                    cached_examples.val[t][i], FALSE)]

-----------------------------------------------------------------------------
(* Properties *)

\* C1: whatever the order in which predict_fn returns the pairs of indices
\* 0..N-1 of a task, the output sequence evaluate stores for the task in
\* all_output_tokens, and returns, is the one of the pairs in ascending index
\* order: element i is the token sequence paired with index i.
C1_OrderingRestored ==
  Called =>
    /\ \A t \in DOMAIN call.val.all_output_tokens :
         WellBehaved(t) => call.val.all_output_tokens[t] = InIndexOrder(Result(t).ret)
    /\ \A t \in ActiveTasks :
         (WellBehaved(t) /\ Outcome.kind = "return") =>
           Outcome.outputs.val[t] = InIndexOrder(Result(t).ret)

\* C1 witness: a returned call in which a task's pairs came out of index order
\* and carry different token sequences.
C1_Witness ==
  /\ ReturnedNormally
  /\ \E t \in ActiveTasks :
       /\ WellBehaved(t)
       /\ NumCached(t) >= 2
       /\ Result(t).ret[1][1] # 0
       /\ Result(t).ret[1][2] # Result(t).ret[2][2]

\* C2 (as claimed): when predict_fn was invoked for a task and returned a
\* sequence with an element, at any position, that has not exactly 2
\* components, the call raises ValueError.
C2_MalformedElementRaisesValueError ==
  Called =>
    \A k \in DOMAIN Events :
      (/\ Events[k].op = "predict"
       /\ ~Result(Events[k].task).raises
       /\ \E j \in DOMAIN Result(Events[k].task).ret :
            Len(Result(Events[k].task).ret[j]) # 2)
      => Outcome.kind = "raise" /\ Outcome.error = "ValueError"

\* C3 (as claimed): construction with explicit sequence_lengths always
\* succeeds, the supplied lengths are what the feature converter gets for
\* every task, and equal lengths log no warning.
C3_ExplicitLengthsAlwaysAccepted ==
  (phase # "new" /\ ctor_args.sequence_lengths.some) =>
    /\ phase = "ready"
    /\ Len(converter_calls) = Len(eval_tasks)
    /\ \A k \in DOMAIN converter_calls :
         converter_calls[k].lengths = ctor_args.sequence_lengths.val
    /\ (~AnyShort /\ ~AnyLong) => ctor_log = <<>>

\* C4: an instance with no active task is constructed; its evaluate never calls
\* predict_fn, raises nothing and returns ({}, {}) when compute_metrics is
\* true and ({}, None) when it is false.
C4_InactiveEvaluatorReturnsEmpty ==
  (phase # "new" /\ eval_tasks = <<>>) =>
    /\ phase = "ready"
    /\ call.some =>
         /\ Events = <<>>
         /\ Outcome = Returned(EmptyMap,
                               IF call.val.compute_metrics THEN Some(EmptyMap) ELSE None)

\* C4 witness: evaluate(compute_metrics=True) was called on an instance with no
\* active task.
C4_Witness ==
  /\ Called
  /\ eval_tasks = <<>>
  /\ call.val.compute_metrics

\* C5 (as claimed): when compute_metrics is true and predict_fn returns exactly
\* one pair per index for every task, every metric function of every active
\* task is called with the cached targets and the aligned predictions.
C5_MetricsAlignedWithCache ==
  (Called /\ call.val.compute_metrics /\ AllWellBehaved) =>
    \A t \in ActiveTasks :
      \A m \in DOMAIN metric_fns(t) :
        \E k \in EventsWith("metric") :
          /\ Events[k].task = t
          /\ Events[k].args.fn = metric_fns(t)[m]
          /\ Events[k].args.targets = cached_targets.val[t]
          /\ Events[k].args.predictions = AlignedPredictions(t)

\* C6: evaluate leaves the cached datasets, examples and targets as the
\* constructor built them, gives predict_fn the cached dataset of the task, and
\* a repeated call with the same predict_fn ends as the call before it: the
\* same outcome when compute_metrics is the same, the same outputs whenever
\* both calls return.
C6_CachingIdempotent ==
  [][ /\ phase = "ready" =>
           /\ cached_ds' = cached_ds
           /\ cached_examples' = cached_examples
           /\ cached_targets' = cached_targets
           /\ eval_tasks' = eval_tasks
      /\ call'.some =>
           \A k \in DOMAIN call'.val.events :
             call'.val.events[k].op = "predict" =>
               call'.val.events[k].args = cached_ds.val[call'.val.events[k].task]
      /\ (call.some /\ call'.some /\ predict_fn' = predict_fn) =>
           /\ call'.val.compute_metrics = call.val.compute_metrics =>
                call'.val.outcome = call.val.outcome
           /\ (call'.val.outcome.kind = "return" /\ call.val.outcome.kind = "return") =>
                call'.val.outcome.outputs = call.val.outcome.outputs
    ]_vars

\* C6 witness: a repeated call on an instance with active tasks returned
\* outputs and metrics.
C6_Witness ==
  /\ ReturnedNormally
  /\ repeated
  /\ eval_tasks # <<>>
  /\ call.val.compute_metrics
  /\ Outcome.metrics.some

\* C7: evaluate(compute_metrics=False) returns whenever predict_fn is well
\* behaved; what it returns is a mapping with the re-ordered output token
\* sequences of every active task and None for the metrics, and the call
\* decodes, post-processes, measures and logs nothing.
C7_NoMetricsWhenNotAsked ==
  (Called /\ ~call.val.compute_metrics) =>
    /\ AllWellBehaved => Outcome.kind = "return"
    /\ Outcome.kind = "return" =>
         /\ Outcome.outputs.some
         /\ DOMAIN Outcome.outputs.val = ActiveTasks
         /\ \A t \in ActiveTasks :
              /\ Len(Outcome.outputs.val[t]) = Len(Result(t).ret)
              /\ WellBehaved(t) => Outcome.outputs.val[t] = InIndexOrder(Result(t).ret)
         /\ ~Outcome.metrics.some
    /\ OnlyPredictEvents

\* C7 witness: a call with compute_metrics false returned the outputs of two
\* active tasks.
C7_Witness ==
  /\ ReturnedNormally
  /\ ~call.val.compute_metrics
  /\ Len(eval_tasks) = 2
  /\ AllWellBehaved

\* C8 (as claimed): with explicit lengths, the truncation warning is logged
\* whenever a feature is shorter than its observed maximum and the wasted
\* computation warning whenever a feature is longer; with no lengths supplied
\* nothing is warned.
C8_WarningsPerFeature ==
  (phase # "new" /\ eval_tasks # <<>>) =>
    IF ctor_args.sequence_lengths.some
      THEN /\ AnyShort => Logged("truncation")
           /\ AnyLong => Logged("wasted_computation")
      ELSE ctor_log = <<>>

\* C9 (as claimed): without a summary directory, evaluate(compute_metrics=True)
\* with a well-behaved predict_fn returns the metrics, logs one line per metric
\* name/value pair and neither writes a summary nor flushes.
C9_SummarySinkOptional ==
  (/\ Called
   /\ call.val.compute_metrics
   /\ eval_tasks # <<>>
   /\ ~ctor_args.summary_dir.some
   /\ AllWellBehaved) =>
    /\ Outcome.kind = "return"
    /\ Outcome.metrics.some
    /\ EventsWith("add_summary") = {}
    /\ EventsWith("flush") = {}
    /\ \A t \in ActiveTasks :
         \A m \in DOMAIN Outcome.metrics.val[t] :
           \A i \in DOMAIN Outcome.metrics.val[t][m] :
             \E k \in EventsWith("log") :
               Events[k].args.tag = <<"eval", t, Outcome.metrics.val[t][m][i][1]>>

\* C10: in one call predict_fn is invoked at most once per task, in task
\* order; every invocation precedes every decode, post-processing, metric and
\* logging step of any task, which happen only after all tasks are predicted;
\* and a call in which predict_fn raises or gives an empty sequence or a first
\* element that is not a pair ends in an exception with none of those steps.
C10_PredictBeforeMetrics ==
  Called =>
    /\ IsPrefix(PredictedTasks(Events), eval_tasks)
    /\ \A j, k \in DOMAIN Events :
         (Events[j].op = "predict" /\ Events[k].op # "predict") => j < k
    /\ (~OnlyPredictEvents \/ Outcome.kind = "return") =>
         PredictedTasks(Events) = eval_tasks
    /\ (\E t \in ActiveTasks :
          \/ Result(t).raises
          \/ Len(Result(t).ret) = 0
          \/ Len(Result(t).ret[1]) # 2) =>
         /\ Outcome.kind = "raise"
         /\ OnlyPredictEvents

\* C10 witness: metrics were asked for, the first of two tasks was predicted
\* well, the second one's output failed validation, and the call stopped
\* there.
C10_Witness ==
  /\ Called
  /\ call.val.compute_metrics
  /\ Len(eval_tasks) = 2
  /\ WellBehaved(eval_tasks[1])
  /\ Outcome.kind = "raise"
  /\ Outcome.error = "ValueError"
  /\ PredictedTasks(Events) = eval_tasks

====
